---- MODULE Spec2Model ----
(***************************************************************************)
(* A model of the dots.ocr browser client: the API client (services/api),   *)
(* the Orchestrator (OCRInterface), the Sidebar, the OutputPanel and the    *)
(* DocumentPreview.                                                         *)
(*                                                                         *)
(* Conventions.  A JavaScript string that the code computes is a sequence   *)
(* of one-character strings; an opaque identifier (a prompt id, a tab       *)
(* name) is a TLA+ string.  A nullable value is a sequence of length 0      *)
(* (null / undefined) or 1 (the value).                                     *)
(***************************************************************************)
EXTENDS Integers, Sequences, FiniteSets, TLC

Null == <<>>

Some(v) == <<v>>

IsNull(m) == m = <<>>

Get(m) == m[1]

(***************************************************************************)
(* Strings                                                                 *)
(***************************************************************************)

\* s[i..] begins with p
StartsWithAt(s, i, p) ==
  /\ i + Len(p) - 1 <= Len(s)
  /\ \A k \in 1..Len(p) : s[i + k - 1] = p[k]

\* String.prototype.includes
Includes(s, p) == \E i \in 1..(Len(s) + 1) : StartsWithAt(s, i, p)

\* the number of (possibly overlapping) occurrences of p in s
CountOf(s, p) == Cardinality({i \in 1..Len(s) : StartsWithAt(s, i, p)})

Digit(d) == <<"0", "1", "2", "3", "4", "5", "6", "7", "8", "9">>[d + 1]

RECURSIVE NumToStr(_)
\* String(n) for a non-negative integer, as a template literal `${n}` does
NumToStr(n) == IF n < 10 THEN <<Digit(n)>> ELSE NumToStr(n \div 10) \o <<Digit(n % 10)>>

\* a JavaScript string is falsy exactly when it is empty; undefined is falsy
TruthyStr(m) == ~IsNull(m) /\ Get(m) # <<>>

\* a || b for an optional string a and a string b
OrElse(m, b) == IF TruthyStr(m) THEN Get(m) ELSE b

(***************************************************************************)
(* API client (services/api)                                               *)
(***************************************************************************)

ValidationErrorPrefix ==
  <<"V","a","l","i","d","a","t","i","o","n"," ","E","r","r","o","r",":"," ">>

InvalidInput == <<"I","n","v","a","l","i","d"," ","i","n","p","u","t">>

HttpPrefix == <<"H","T","T","P"," ">>

\* what Response.json() rejects with for a body that is not JSON
JsonSyntaxMessage == <<"U","n","e","x","p","e","c","t","e","d"," ","t","o","k","e","n">>

\* what fetch() rejects with when the network fails
FailedToFetch == <<"F","a","i","l","e","d"," ","t","o"," ","f","e","t","c","h">>

\* the outcome of an async call: a returned value or a thrown Error
Returned(v) == [threw |-> FALSE, value |-> Some(v), message |-> <<>>]

Thrown(msg) == [threw |-> TRUE, value |-> Null, message |-> msg]

\* Response.ok
ResponseOk(response) == response.status >= 200 /\ response.status <= 299

\* Response.json(): the body is Null when it is not JSON
ResponseJson(response) ==
  IF IsNull(response.body) THEN Thrown(JsonSyntaxMessage) ELSE Returned(Get(response.body))

\* the msg of the last validation issue is taken, not of the first
FirstDetailMsg_Last(error) ==
  IF "detail" \notin DOMAIN error THEN Null
  ELSE IF Len(error.detail) = 0 THEN Null
  ELSE IF "msg" \notin DOMAIN error.detail[Len(error.detail)] THEN Null
  ELSE Some(error.detail[Len(error.detail)].msg)

\* error.detail?.[0]?.msg of a JSON object
FirstDetailMsg(error) ==
  IF "detail" \notin DOMAIN error THEN Null
  ELSE IF Len(error.detail) = 0 THEN Null
  ELSE IF "msg" \notin DOMAIN error.detail[1] THEN Null
  ELSE Some(error.detail[1].msg)

\* the message of the 422 branch: `Validation Error: ${msg || 'Invalid input'}`
ValidationMessage(error) == ValidationErrorPrefix \o OrElse(FirstDetailMsg(error), InvalidInput)

\* the generic message leaves the status out
HttpMessage_NoStatus(response) == HttpPrefix \o <<":", " ">> \o response.statusText

\* the message of the generic branch: `HTTP ${status}: ${statusText}`
HttpMessage(response) ==
  HttpPrefix \o NumToStr(response.status) \o <<":", " ">> \o response.statusText

handleResponse(response) ==
  IF ~ResponseOk(response)
  THEN IF response.status = 422
       THEN LET error == ResponseJson(response)
            IN  IF error.threw THEN error ELSE Thrown(ValidationMessage(Get(error.value)))
       ELSE Thrown(HttpMessage(response))
  ELSE ResponseJson(response)

\* fetched is Null when fetch() itself rejects, else the Response
getPrompts(fetched) ==
  IF IsNull(fetched) THEN Thrown(FailedToFetch)
  ELSE LET data == handleResponse(Get(fetched))
       IN  IF data.threw THEN data ELSE Returned(Get(data.value).prompts)

\* the multipart body parseDocument builds
FormDataOf(file, promptId) == << <<"file", file>>, <<"promptId", promptId>> >>

parseDocument(fetched) ==
  IF IsNull(fetched) THEN Thrown(FailedToFetch) ELSE handleResponse(Get(fetched))

healthCheck(fetched) ==
  IF IsNull(fetched) THEN Thrown(FailedToFetch) ELSE handleResponse(Get(fetched))

(***************************************************************************)
(* The server, as the client sees it                                       *)
(***************************************************************************)

\* file objects a user may pick before the model stops creating new ones
MaxFiles == 3

\* files offered by the upload dialog, by MIME type: <<type, subtype>> is "type/subtype"
UploadTypes == {<<"application", "pdf">>, <<"image", "png">>}

NewFile(id, type) == [id |-> id, name |-> "upload", type |-> type]

\* new File(["mock content"], "Amir_Abdallah_Resume.pdf", {type: "application/pdf"})
MockFile(id) == [id |-> id, name |-> "Amir_Abdallah_Resume.pdf",
                 type |-> <<"application", "pdf">>]

Prompt(id) == [id |-> id, name |-> id, description |-> id]

\* prompt lists GET /api/v1/prompts/ may answer with
PromptLists == {<<>>, <<Prompt("layout")>>, <<Prompt("layout"), Prompt("ocr")>>}

\* texts a parse may return
Markdowns == {<<>>, <<"#", " ", "T">>}

RawTexts == {<<>>, <<"T">>}

\* the ParseResponse for the file of a request; storage_key names the stored file
ParseResponseOf(file, markdown, rawText) ==
  [success |-> TRUE,
   data |-> [markdown |-> markdown, rawText |-> rawText],
   metadata |-> [storage_key |-> file.id, model |-> "dots.ocr", processing_time_ms |-> 1,
                 request_id |-> "r", file_size_kb |-> 1]]

StatusTexts == {<<>>, <<"E", "r", "r">>}

\* the msg of a validation issue; it may be empty
DetailMsgs == {<<>>, <<"b", "a", "d">>}

\* JSON bodies of a 422: no detail, an empty list, entries with and without msg
ValidationBodies ==
  {[code |-> "x"], [detail |-> <<>>], [detail |-> <<[loc |-> "file"]>>]}
    \cup {[detail |-> <<[msg |-> m]>>] : m \in DetailMsgs}
    \cup {[detail |-> <<[msg |-> m], [msg |-> <<"2">>]>>] : m \in DetailMsgs}

\* the ApiError body of a failed request
ApiErrorBody == [success |-> FALSE, error |-> [code |-> "E", message |-> "m"]]

Response(status, statusText, body) == [status |-> status, statusText |-> statusText, body |-> body]

\* what a request may be answered with besides its documented 2xx body:
\* a 2xx whose body is not JSON, a 422, another non-2xx status
FailureResponses(okStatuses, errStatuses, texts) ==
  {Response(s, t, Null) : s \in okStatuses, t \in texts}
    \cup {Response(422, t, b) : t \in texts, b \in {Null} \cup {Some(v) : v \in ValidationBodies}}
    \cup {Response(s, t, b) : s \in errStatuses, t \in texts, b \in {Null, Some(ApiErrorBody)}}

\* the outcomes of fetch() for POST /api/v1/parse/ of a request: Null is a network failure
ParseFetches(formData) ==
  {Null}
    \cup {Some(Response(200, <<>>, Some(ParseResponseOf(formData[1][2], m, r)))) :
            m \in Markdowns, r \in RawTexts}
    \cup {Some(r) : r \in FailureResponses({200}, {500}, {<<>>})}

\* the outcomes of fetch() for GET /api/v1/prompts/
PromptsFetches ==
  {Null}
    \cup {Some(Response(200, <<>>, Some([prompts |-> l]))) : l \in PromptLists}
    \cup {Some(r) : r \in FailureResponses({200}, {500}, {<<>>})}

(***************************************************************************)
(* State                                                                   *)
(***************************************************************************)

VARIABLES
  selectedFile,     \* OCRInterface: File | null
  isLoading,        \* OCRInterface
  hasOutput,        \* OCRInterface
  outputData,       \* OCRInterface: ParseResponse | null
  sbSelectedFile,   \* Sidebar: File | null
  selectedPrompt,   \* Sidebar: prompt id, "" when none
  prompts,          \* Sidebar: Prompt[]
  loadingPrompts,   \* Sidebar
  activeTab,        \* OutputPanel: "markdown" | "raw"
  promptsCall,      \* the getPrompts call of the mount effect: "pending" | "settled"
  parseCalls,       \* parseDocument calls in flight, each with the form data it sent
  toastShown,       \* the last toast | null
  downloaded,       \* the last file handleDownload produced | null
  nextFileId        \* identity of the next File object

VARIABLES
  mounted,          \* DocumentPreview: the component is mounted
  fileProp,         \* DocumentPreview: the file prop, File | null
  preview,          \* DocumentPreview: string | null
  fileURL,          \* DocumentPreview: string | null
  cleanup,          \* the cleanup the last effect run returned: the URL it revokes | null
  effectPending,    \* a render with a new file prop is committed, its effect not yet run
  objectURLs,       \* object URLs created and not revoked, each with the file it is of
  nextURL,          \* identity of the next object URL
  readers,          \* FileReader reads in flight, by the file read
  nextPreviewFile   \* identity of the next File object given to the preview

VARIABLES
  apiOp,            \* the API client operation called
  apiFetched,       \* what fetch() produced for it: a Response | null (rejected)
  apiResult         \* the settled call | null

VARIABLES
  mdInput,          \* the markdown given to formatMarkdownForDisplay
  mdOutput          \* the HTML it returned | null

previewVars == <<mounted, fileProp, preview, fileURL, cleanup, effectPending, objectURLs, nextURL,
                 readers, nextPreviewFile>>

apiVars == <<apiOp, apiFetched, apiResult>>

mdVars == <<mdInput, mdOutput>>

nonUiVars == <<previewVars, apiVars, mdVars>>

uiVars == <<selectedFile, isLoading, hasOutput, outputData, sbSelectedFile, selectedPrompt,
            prompts, loadingPrompts, activeTab, promptsCall, parseCalls, toastShown,
            downloaded, nextFileId>>

UIInit ==
  /\ selectedFile = Null
  /\ isLoading = FALSE
  /\ hasOutput = FALSE
  /\ outputData = Null
  /\ sbSelectedFile = Null
  /\ selectedPrompt = ""
  /\ prompts = <<>>
  /\ loadingPrompts = TRUE
  /\ activeTab = "markdown"
  /\ promptsCall = "pending"
  /\ parseCalls = <<>>
  /\ toastShown = Null
  /\ downloaded = Null
  /\ nextFileId = 1

(***************************************************************************)
(* Orchestrator (OCRInterface)                                             *)
(***************************************************************************)

\* handleFileSelect: the orchestrator's part of a selection
handleFileSelect(file) ==
  /\ selectedFile' = Some(file)
  /\ hasOutput' = FALSE

\* handleParse up to its await: the state is reset and the request is sent
handleParse_ClearsNothing(file, promptId) ==
  /\ isLoading' = TRUE
  /\ hasOutput' = FALSE
  /\ outputData' = outputData
  /\ parseCalls' = Append(parseCalls, [formData |-> FormDataOf(file, promptId)])

handleParse(file, promptId) ==
  /\ isLoading' = TRUE
  /\ hasOutput' = FALSE
  /\ outputData' = Null
  /\ parseCalls' = Append(parseCalls, [formData |-> FormDataOf(file, promptId)])

Toast(title, description, variant) ==
  Some([title |-> title, description |-> description, variant |-> variant])

SuccessToast ==
  Toast("Success!",
        <<"D","o","c","u","m","e","n","t"," ","p","a","r","s","e","d"," ",
          "s","u","c","c","e","s","s","f","u","l","l","y">>, "default")

\* every rejection of parseDocument is an Error, so its message is shown
ParseErrorToast(result) == Toast("Parse Error", result.message, "destructive")

PromptsErrorToast ==
  Toast("Error",
        <<"F","a","i","l","e","d"," ","t","o"," ","l","o","a","d"," ","p","r","o","m","p","t","s",".",
          " ","P","l","e","a","s","e"," ","t","r","y"," ","a","g","a","i","n",".">>, "destructive")

RemoveAt(seq, i) == SubSeq(seq, 1, i - 1) \o SubSeq(seq, i + 1, Len(seq))

\* handleParse from its await on: the call settles with what fetch() produced
ParseSettles ==
  \E i \in 1..Len(parseCalls) :
    \E fetched \in ParseFetches(parseCalls[i].formData) :
      LET result == parseDocument(fetched)
      IN  /\ parseCalls' = RemoveAt(parseCalls, i)
          /\ IF ~result.threw
             THEN /\ outputData' = result.value
                  /\ hasOutput' = TRUE
                  /\ toastShown' = SuccessToast
             ELSE /\ toastShown' = ParseErrorToast(result)
                  /\ UNCHANGED <<outputData, hasOutput>>
          /\ isLoading' = FALSE
          /\ UNCHANGED <<selectedFile, sbSelectedFile, selectedPrompt, prompts,
                         loadingPrompts, activeTab, promptsCall, downloaded, nextFileId, nonUiVars>>

(***************************************************************************)
(* Sidebar                                                                 *)
(***************************************************************************)

\* handleFileUpload with a file chosen in the dialog
handleFileUpload ==
  \E type \in UploadTypes :
    /\ nextFileId <= MaxFiles
    /\ sbSelectedFile' = Some(NewFile(nextFileId, type))
    /\ handleFileSelect(NewFile(nextFileId, type))
    /\ nextFileId' = nextFileId + 1
    /\ UNCHANGED <<isLoading, outputData, selectedPrompt, prompts, loadingPrompts,
                   activeTab, promptsCall, parseCalls, toastShown, downloaded, nonUiVars>>

handleExampleSelect ==
  /\ nextFileId <= MaxFiles
  /\ sbSelectedFile' = Some(MockFile(nextFileId))
  /\ handleFileSelect(MockFile(nextFileId))
  /\ nextFileId' = nextFileId + 1
  /\ UNCHANGED <<isLoading, outputData, selectedPrompt, prompts, loadingPrompts,
                 activeTab, promptsCall, parseCalls, toastShown, downloaded, nonUiVars>>

\* the trash button, rendered while the Sidebar has a file
RemoveFileClick ==
  /\ ~IsNull(sbSelectedFile)
  /\ sbSelectedFile' = Null
  /\ UNCHANGED <<selectedFile, isLoading, hasOutput, outputData, selectedPrompt, prompts,
                 loadingPrompts, activeTab, promptsCall, parseCalls, toastShown,
                 downloaded, nextFileId, nonUiVars>>

\* the Select's onValueChange; the Select is disabled while the prompts load
SelectPromptChange ==
  \E i \in 1..Len(prompts) :
    /\ ~loadingPrompts
    /\ selectedPrompt' = prompts[i].id
    /\ UNCHANGED <<selectedFile, isLoading, hasOutput, outputData, sbSelectedFile, prompts,
                   loadingPrompts, activeTab, promptsCall, parseCalls, toastShown,
                   downloaded, nextFileId, nonUiVars>>

\* loadPrompts of the mount effect, from its await on
LoadPromptsSettles ==
  \E fetched \in PromptsFetches :
    LET result == getPrompts(fetched)
    IN  /\ promptsCall = "pending"
        /\ promptsCall' = "settled"
        /\ IF ~result.threw
           THEN /\ prompts' = Get(result.value)
                /\ selectedPrompt' =
                     IF Len(Get(result.value)) > 0 THEN Get(result.value)[1].id
                     ELSE selectedPrompt
                /\ UNCHANGED toastShown
           ELSE /\ toastShown' = PromptsErrorToast
                /\ UNCHANGED <<prompts, selectedPrompt>>
        /\ loadingPrompts' = FALSE
        /\ UNCHANGED <<selectedFile, isLoading, hasOutput, outputData, sbSelectedFile,
                       activeTab, parseCalls, downloaded, nextFileId, nonUiVars>>

\* the Parse button's disabled attribute drops the loading flag
DisabledWith_IgnoresLoading(file, promptId, loading, loadingP) ==
  IsNull(file) \/ promptId = "" \/ loadingP

\* the Parse button's disabled attribute drops the prompt
DisabledWith_IgnoresPrompt(file, promptId, loading, loadingP) ==
  IsNull(file) \/ loading \/ loadingP

\* the Parse button's disabled attribute
DisabledWith(file, promptId, loading, loadingP) ==
  IsNull(file) \/ promptId = "" \/ loading \/ loadingP

ParseDisabled == DisabledWith(sbSelectedFile, selectedPrompt, isLoading, loadingPrompts)

\* handleParseClick, reached by a click on the enabled Parse button
handleParseClick ==
  /\ ~ParseDisabled
  /\ IF ~IsNull(sbSelectedFile) /\ selectedPrompt # ""
     THEN handleParse(Get(sbSelectedFile), selectedPrompt)
     ELSE UNCHANGED <<isLoading, hasOutput, outputData, parseCalls>>
  /\ UNCHANGED <<selectedFile, sbSelectedFile, selectedPrompt, prompts, loadingPrompts,
                 activeTab, promptsCall, toastShown, downloaded, nextFileId, nonUiVars>>

(***************************************************************************)
(* OutputPanel                                                             *)
(***************************************************************************)

\* the first line of the built-in sample markdown
sampleMarkdown == <<"#"," ","A","M","I","R"," ","A","B","D","A","L","L","A","H">>

\* the first line of the built-in sample raw text
sampleRawText == <<"A","M","I","R"," ","A","B","D","A","L","L","A","H">>

\* the outputData prop: outputData?.data || null
OutputDataProp == IF IsNull(outputData) THEN Null ELSE Some(Get(outputData).data)

\* outputData?.markdown || sampleMarkdown
markdownContent ==
  OrElse(IF IsNull(OutputDataProp) THEN Null ELSE Some(Get(OutputDataProp).markdown),
         sampleMarkdown)

\* outputData?.rawText || sampleRawText
rawTextContent ==
  OrElse(IF IsNull(OutputDataProp) THEN Null ELSE Some(Get(OutputDataProp).rawText),
         sampleRawText)

\* the panel shows its tabs and buttons unless !hasOutput && !isLoading
PanelShown == hasOutput \/ isLoading

Tabs == {"markdown", "raw"}

\* the Tabs' onValueChange
SetActiveTab ==
  \E tab \in Tabs :
    /\ PanelShown
    /\ activeTab' = tab
    /\ UNCHANGED <<selectedFile, isLoading, hasOutput, outputData, sbSelectedFile,
                   selectedPrompt, prompts, loadingPrompts, promptsCall, parseCalls,
                   toastShown, downloaded, nextFileId, nonUiVars>>

\* `output.${activeTab === 'markdown' ? 'md' : 'txt'}`
DownloadFilename ==
  <<"o","u","t","p","u","t",".">>
    \o (IF activeTab = "markdown" THEN <<"m","d">> ELSE <<"t","x","t">>)

\* the Download button's onClick: handleDownload(content, filename)
DownloadClick ==
  /\ PanelShown
  /\ downloaded' = Some([filename |-> DownloadFilename,
                         content |-> IF activeTab = "markdown" THEN markdownContent
                                     ELSE rawTextContent])
  /\ UNCHANGED <<selectedFile, isLoading, hasOutput, outputData, sbSelectedFile,
                 selectedPrompt, prompts, loadingPrompts, activeTab, promptsCall,
                 parseCalls, toastShown, nextFileId, nonUiVars>>

(***************************************************************************)
(* DocumentPreview                                                         *)
(***************************************************************************)

\* file objects the preview is given before the model stops creating new ones
MaxPreviewFiles == 3

\* MIME types of the files previewed: a PDF, an image, anything else
PreviewTypes == {<<"application", "pdf">>, <<"image", "png">>, <<"text", "plain">>}

\* file.type === "application/pdf"
IsPdf(f) == f.type = <<"application", "pdf">>

\* file.type.startsWith("image/")
IsImage(f) == f.type[1] = "image"

\* the preview strings: a prefix followed by what names the file
PreviewText(prefix, f) == Some([prefix |-> prefix, of |-> f.id])

\* URL.revokeObjectURL(url) for the url a cleanup closes over; no cleanup revokes nothing
Revoked(urls, c) == IF IsNull(c) THEN urls ELSE {u \in urls : u.url # Get(c)}

PreviewInit ==
  /\ mounted = TRUE
  /\ fileProp = Null
  /\ preview = Null
  /\ fileURL = Null
  /\ cleanup = Null
  /\ effectPending = TRUE
  /\ objectURLs = {}
  /\ nextURL = 1
  /\ readers = {}
  /\ nextPreviewFile = 1

\* OCRInterface renders the preview with the file handleFileSelect stored
PreviewRender ==
  \E type \in PreviewTypes :
    /\ mounted
    /\ ~effectPending
    /\ nextPreviewFile <= MaxPreviewFiles
    /\ fileProp' = Some(NewFile(nextPreviewFile, type))
    /\ nextPreviewFile' = nextPreviewFile + 1
    /\ effectPending' = TRUE
    /\ UNCHANGED <<mounted, preview, fileURL, cleanup, objectURLs, nextURL, readers>>
    /\ UNCHANGED <<uiVars, apiVars, mdVars>>

\* the effect's PDF branch returns no cleanup
PdfCleanup_None(url) == Null

\* the cleanup the effect's PDF branch returns: () => URL.revokeObjectURL(url)
PdfCleanup(url) == Some(url)

\* the effect on [file]: the previous run's cleanup, then the effect body
PreviewEffect ==
  /\ mounted
  /\ effectPending
  /\ effectPending' = FALSE
  /\ IF IsNull(fileProp)
     THEN /\ preview' = Null
          /\ fileURL' = Null
          /\ cleanup' = Null
          /\ objectURLs' = Revoked(objectURLs, cleanup)
          /\ UNCHANGED <<nextURL, readers>>
     ELSE IF IsPdf(Get(fileProp))
     THEN /\ objectURLs' = Revoked(objectURLs, cleanup)
                             \cup {[url |-> nextURL, of |-> Get(fileProp).id]}
          /\ nextURL' = nextURL + 1
          /\ fileURL' = Some(nextURL)
          /\ preview' = PreviewText("PDF Document: ", Get(fileProp))
          /\ cleanup' = PdfCleanup(nextURL)
          /\ UNCHANGED readers
     ELSE IF IsImage(Get(fileProp))
     THEN /\ readers' = readers \cup {Get(fileProp).id}
          /\ fileURL' = Null
          /\ cleanup' = Null
          /\ objectURLs' = Revoked(objectURLs, cleanup)
          /\ UNCHANGED <<preview, nextURL>>
     ELSE /\ preview' = PreviewText("File: ", Get(fileProp))
          /\ fileURL' = Null
          /\ cleanup' = Null
          /\ objectURLs' = Revoked(objectURLs, cleanup)
          /\ UNCHANGED <<nextURL, readers>>
  /\ UNCHANGED <<mounted, fileProp, nextPreviewFile>>
  /\ UNCHANGED <<uiVars, apiVars, mdVars>>

\* reader.onload of a read in flight: setPreview(e.target.result); an unmounted
\* component's state is no longer set
ReaderLoads ==
  \E id \in readers :
    /\ readers' = readers \ {id}
    /\ preview' = IF mounted THEN Some([prefix |-> "data:", of |-> id]) ELSE preview
    /\ UNCHANGED <<mounted, fileProp, fileURL, cleanup, effectPending, objectURLs, nextURL,
                   nextPreviewFile>>
    /\ UNCHANGED <<uiVars, apiVars, mdVars>>

\* the component is torn down: the last effect run's cleanup runs
PreviewUnmount ==
  /\ mounted
  /\ mounted' = FALSE
  /\ objectURLs' = Revoked(objectURLs, cleanup)
  /\ cleanup' = Null
  /\ effectPending' = FALSE
  /\ UNCHANGED <<fileProp, preview, fileURL, nextURL, readers, nextPreviewFile>>
  /\ UNCHANGED <<uiVars, apiVars, mdVars>>

\* the render shows the PDF viewer: !isLoading, file?.type === "application/pdf" && fileURL;
\* its documentURL is fileURL
PdfViewerShown ==
  /\ mounted
  /\ ~IsNull(fileProp)
  /\ ~isLoading
  /\ IsPdf(Get(fileProp))
  /\ ~IsNull(fileURL)

\* the render shows the image: file?.type.startsWith("image/") && preview &&
\* preview.startsWith("data:"); its src is preview
ImageShown ==
  /\ mounted
  /\ ~IsNull(fileProp)
  /\ ~isLoading
  /\ ~PdfViewerShown
  /\ IsImage(Get(fileProp))
  /\ ~IsNull(preview)
  /\ Get(preview).prefix = "data:"

(***************************************************************************)
(* The API client's operations on their own                                *)
(***************************************************************************)

ApiOps == {"getPrompts", "parseDocument", "healthCheck"}

\* statuses with Response.ok, and without (422 apart)
ApiOkStatuses == {200, 299}

ApiErrStatuses == {300, 404, 500}

\* the documented 2xx bodies of an operation
TypedBodies(op) ==
  IF op = "getPrompts" THEN {[prompts |-> l] : l \in PromptLists}
  ELSE IF op = "parseDocument"
  THEN {ParseResponseOf(MockFile(1), m, r) : m \in Markdowns, r \in RawTexts}
  ELSE {[status |-> "ok", message |-> "running"]}

\* the outcomes of fetch() for an operation: Null is a network failure
ApiFetches(op) ==
  {Null}
    \cup {Some(Response(s, t, Some(b))) :
            s \in ApiOkStatuses, t \in StatusTexts, b \in TypedBodies(op)}
    \cup {Some(r) : r \in FailureResponses(ApiOkStatuses, ApiErrStatuses, StatusTexts)}

\* no API client operation is under study
ApiIdle ==
  /\ apiOp = "healthCheck"
  /\ apiFetched = Null
  /\ apiResult = Null

ApiInit ==
  /\ apiOp \in ApiOps
  /\ apiFetched \in ApiFetches(apiOp)
  /\ apiResult = Null

CallGetPrompts ==
  /\ apiOp = "getPrompts"
  /\ IsNull(apiResult)
  /\ apiResult' = Some(getPrompts(apiFetched))
  /\ UNCHANGED <<apiOp, apiFetched, uiVars, previewVars, mdVars>>

CallParseDocument ==
  /\ apiOp = "parseDocument"
  /\ IsNull(apiResult)
  /\ apiResult' = Some(parseDocument(apiFetched))
  /\ UNCHANGED <<apiOp, apiFetched, uiVars, previewVars, mdVars>>

CallHealthCheck ==
  /\ apiOp = "healthCheck"
  /\ IsNull(apiResult)
  /\ apiResult' = Some(healthCheck(apiFetched))
  /\ UNCHANGED <<apiOp, apiFetched, uiVars, previewVars, mdVars>>

(***************************************************************************)
(* OutputPanel: formatMarkdownForDisplay                                   *)
(***************************************************************************)

\* what a regular expression's . does not match, and what ^ and $ of the m flag
\* match next to (of the four line terminators, the two the inputs use)
LineTerminators == {"\n", "\r"}

Br == <<"<", "b", "r", "/", ">">>

Tag(name) == <<"<">> \o name \o <<">">>

EndTag(name) == <<"<", "/">> \o name \o <<">">>

\* the least position >= from where d occurs in s, 0 when there is none
NextOccurrence(s, d, from) ==
  LET at == {j \in from..Len(s) : StartsWithAt(s, j, d)}
  IN  IF at = {} THEN 0 ELSE CHOOSE j \in at : \A k \in at : j <= k

\* d(.*?)d at position i: the position of the closing d, 0 when there is no match
LazyMatchAt(s, d, i) ==
  IF ~StartsWithAt(s, i, d) THEN 0
  ELSE LET j == NextOccurrence(s, d, i + Len(d))
       IN  IF j = 0 THEN 0
           ELSE IF \E k \in (i + Len(d))..(j - 1) : s[k] \in LineTerminators THEN 0
           ELSE j

RECURSIVE ReplaceNewlines(_, _)
\* .replace(/\n/g, '<br/>') from position i on
ReplaceNewlines(s, i) ==
  IF i > Len(s) THEN <<>>
  ELSE (IF s[i] = "\n" THEN Br ELSE <<s[i]>>) \o ReplaceNewlines(s, i + 1)

RECURSIVE ReplaceDelimited(_, _, _, _)
\* .replace(/d(.*?)d/g, '<name>$1</name>') from position i on
ReplaceDelimited(s, d, name, i) ==
  IF i > Len(s) THEN <<>>
  ELSE LET j == LazyMatchAt(s, d, i)
       IN  IF j = 0 THEN <<s[i]>> \o ReplaceDelimited(s, d, name, i + 1)
           ELSE Tag(name) \o SubSeq(s, i + Len(d), j - 1) \o EndTag(name)
                  \o ReplaceDelimited(s, d, name, j + Len(d))

\* ^ with the m flag
AtLineStart(s, i) == i = 1 \/ s[i - 1] \in LineTerminators

\* the position after the last character .* takes from position i
LineEnd(s, i) ==
  LET ends == {e \in i..Len(s) : s[e] \in LineTerminators}
  IN  IF ends = {} THEN Len(s) + 1 ELSE CHOOSE e \in ends : \A k \in ends : e <= k

RECURSIVE ReplaceHeading(_, _, _, _)
\* .replace(/^hashes (.*$)/gm, '<name>$1</name>') from position i on
ReplaceHeading(s, hashes, name, i) ==
  IF i > Len(s) THEN <<>>
  ELSE IF AtLineStart(s, i) /\ StartsWithAt(s, i, hashes \o <<" ">>)
  THEN LET from == i + Len(hashes) + 1
           e == LineEnd(s, from)
       IN  Tag(name) \o SubSeq(s, from, e - 1) \o EndTag(name)
             \o ReplaceHeading(s, hashes, name, e)
  ELSE <<s[i]>> \o ReplaceHeading(s, hashes, name, i + 1)

Bold(s) == ReplaceDelimited(s, <<"*", "*">>, <<"s","t","r","o","n","g">>, 1)

Italic(s) == ReplaceDelimited(s, <<"*">>, <<"e","m">>, 1)

Headings(s) ==
  ReplaceHeading(
    ReplaceHeading(
      ReplaceHeading(s, <<"#">>, <<"h","1">>, 1),
      <<"#","#">>, <<"h","2">>, 1),
    <<"#","#","#">>, <<"h","3">>, 1)

\* the italic substitution is applied before the bold one
formatMarkdownForDisplay_ItalicFirst(markdown) ==
  Headings(Bold(Italic(ReplaceNewlines(markdown, 1))))

formatMarkdownForDisplay(markdown) ==
  Headings(Italic(Bold(ReplaceNewlines(markdown, 1))))

\* pieces the markdown inputs are put together from
Fragments ==
  {<<"*">>, <<"*", "*">>, <<"\n">>, <<"a">>, <<"#", " ">>, <<"#">>, Br, <<"\r">>}

\* the most pieces an input is put together from
MaxFragments == 5

RECURSIVE Flatten(_)
Flatten(ss) == IF ss = <<>> THEN <<>> ELSE Head(ss) \o Flatten(Tail(ss))

MarkdownInputs ==
  {Flatten(ss) : ss \in UNION {[1..n -> Fragments] : n \in 0..MaxFragments}}

\* no markdown is under study
MarkdownIdle ==
  /\ mdInput = <<>>
  /\ mdOutput = Null

MarkdownInit ==
  /\ mdInput \in MarkdownInputs
  /\ mdOutput = Null

\* the markdown tab renders formatMarkdownForDisplay(markdownContent)
RenderMarkdown ==
  /\ IsNull(mdOutput)
  /\ mdOutput' = Some(formatMarkdownForDisplay(mdInput))
  /\ UNCHANGED <<mdInput, uiVars, previewVars, apiVars>>

(***************************************************************************)
(* Specifications                                                          *)
(***************************************************************************)

vars == <<uiVars, previewVars, apiVars, mdVars>>

\* the Orchestrator, the Sidebar and the OutputPanel with the server
Init == UIInit /\ PreviewInit /\ ApiIdle /\ MarkdownIdle

Next ==
  \/ handleFileUpload
  \/ handleExampleSelect
  \/ RemoveFileClick
  \/ SelectPromptChange
  \/ LoadPromptsSettles
  \/ handleParseClick
  \/ ParseSettles
  \/ SetActiveTab
  \/ DownloadClick

Spec == Init /\ [][Next]_vars

\* the DocumentPreview under a sequence of file selections
PreviewNext ==
  \/ PreviewRender
  \/ PreviewEffect
  \/ ReaderLoads
  \/ PreviewUnmount

SpecPreview == Init /\ [][PreviewNext]_vars

\* the API client's operations on every response
ApiSpecInit == UIInit /\ PreviewInit /\ ApiInit /\ MarkdownIdle

ApiNext ==
  \/ CallGetPrompts
  \/ CallParseDocument
  \/ CallHealthCheck

SpecApi == ApiSpecInit /\ [][ApiNext]_vars

\* formatMarkdownForDisplay on every input
MarkdownSpecInit == UIInit /\ PreviewInit /\ ApiIdle /\ MarkdownInit

MarkdownNext == RenderMarkdown

SpecMarkdown == MarkdownSpecInit /\ [][MarkdownNext]_vars

(***************************************************************************)
(* Properties of the Orchestrator, the Sidebar and the OutputPanel (Spec)  *)
(***************************************************************************)

\* a step in which a parseDocument call settles
ParseSettled == Len(parseCalls') < Len(parseCalls)

\* C1: whenever a parse call settles, in any interleaving with file selections:
\* if it resolved (the success toast is shown) the Orchestrator has hasOutput = true
\* and a non-null outputData, and if it failed (HTTP error, validation error, body
\* that is not JSON, network error) it has hasOutput = false and outputData = null.
C1_ParseOutcome ==
  [][ParseSettled =>
       IF Get(toastShown').title = "Success!"
       THEN hasOutput' /\ ~IsNull(outputData')
       ELSE ~hasOutput' /\ IsNull(outputData')]_vars

\* a parse of one file has resolved after the user had selected another file
C1_Witness ==
  /\ hasOutput
  /\ ~isLoading
  /\ ~IsNull(outputData)
  /\ Get(toastShown).title = "Success!"
  /\ Get(outputData).metadata.storage_key # Get(selectedFile).id

\* C2: at most one parseDocument call is in flight; while one is in flight isLoading
\* is true; and the submit action is enabled only while isLoading is false and no
\* call is in flight.
C2_SingleFlight ==
  /\ Len(parseCalls) <= 1
  /\ (Len(parseCalls) = 1 => isLoading)
  /\ (~ParseDisabled => ~isLoading /\ parseCalls = <<>>)

\* a call is in flight and the user has meanwhile selected another file
C2_Witness ==
  /\ Len(parseCalls) = 1
  /\ isLoading
  /\ ~IsNull(sbSelectedFile)
  /\ Get(sbSelectedFile).id # parseCalls[1].formData[1][2].id

\* the multipart fields of a request are exactly file and promptId, promptId non-empty
TwoFields(formData) ==
  /\ Len(formData) = 2
  /\ formData[1][1] = "file"
  /\ formData[2][1] = "promptId"
  /\ formData[2][2] # ""

\* C3: in every state where the Sidebar has no file or the prompt is empty the submit
\* action is disabled; every request in flight carries exactly the two multipart fields
\* file and promptId; and no step from a state without file or prompt issues a request.
C3_RequestNeedsFileAndPrompt ==
  /\ [](((IsNull(sbSelectedFile) \/ selectedPrompt = "") => ParseDisabled)
         /\ \A i \in 1..Len(parseCalls) : TwoFields(parseCalls[i].formData))
  /\ [][(IsNull(sbSelectedFile) \/ selectedPrompt = "")
          => Len(parseCalls') <= Len(parseCalls)]_vars

\* a request is in flight for a prompt the user chose from the list
C3_Witness ==
  /\ Len(parseCalls) = 1
  /\ parseCalls[1].formData[2][2] = "ocr"
  /\ parseCalls[1].formData[1][2] = Get(sbSelectedFile)

\* an error notification is the last one shown
FailureShown == ~IsNull(toastShown) /\ Get(toastShown).variant = "destructive"

\* the user can bring the Parse button to be enabled: with some file selected and
\* the current prompt or one the Select offers
CanEnableSubmit ==
  \E p \in {selectedPrompt} \cup {prompts[i].id : i \in 1..Len(prompts)} :
    ~DisabledWith(Some(MockFile(nextFileId)), p, isLoading, loadingPrompts)

\* C6: once a parse submission or the prompt loading has failed and nothing is in
\* flight, the UI is idle (isLoading = false, loadingPrompts = false) and
\* resubmittable: the user can get the submit action enabled again.
C6_IdleAndResubmittable ==
  (FailureShown /\ promptsCall = "settled" /\ parseCalls = <<>>)
    => ~isLoading /\ ~loadingPrompts /\ CanEnableSubmit

\* C8: whenever the download action produces a file while outputData holds a parse
\* response, the file is output.txt with exactly the response's rawText (raw-text
\* tab) or output.md with exactly its markdown (markdown tab), the empty text included.
C8_DownloadExact ==
  [][(downloaded' # downloaded /\ ~IsNull(outputData)) =>
          IF activeTab = "raw"
          THEN /\ Get(downloaded').filename = <<"o","u","t","p","u","t",".","t","x","t">>
               /\ Get(downloaded').content = Get(outputData).data.rawText
          ELSE /\ Get(downloaded').filename = <<"o","u","t","p","u","t",".","m","d">>
               /\ Get(downloaded').content = Get(outputData).data.markdown]_vars

\* C11: whenever hasOutput is true, outputData is the result of parsing the file that
\* is the Orchestrator's selectedFile; a file selected while a parse of an earlier
\* file is in flight never ends up next to the earlier file's result.
C11_OutputOfSelectedFile ==
  hasOutput =>
    /\ ~IsNull(outputData)
    /\ ~IsNull(selectedFile)
    /\ Get(outputData).metadata.storage_key = Get(selectedFile).id

\* C12: the Sidebar's selectedFile and the Orchestrator's selectedFile agree after any
\* sequence of upload, example selection and remove-file: the file the preview is
\* given is the file the submit action would send, and the preview is given a file
\* if and only if the Sidebar has one selected.
C12_SelectionsAgree == sbSelectedFile = selectedFile

(***************************************************************************)
(* Properties of the API client (SpecApi)                                  *)
(***************************************************************************)

\* the call under study has settled with a Response (fetch did not reject)
Answered == ~IsNull(apiResult) /\ ~IsNull(apiFetched)

\* the 422 response carries a JSON object
Is422Json == Get(apiFetched).status = 422 /\ ~IsNull(Get(apiFetched).body)

\* the detail list of the 422 body is present and non-empty
HasDetail ==
  /\ "detail" \in DOMAIN Get(Get(apiFetched).body)
  /\ Len(Get(Get(apiFetched).body).detail) > 0

\* the first detail entry carries a non-empty msg
HasFirstMsg ==
  /\ HasDetail
  /\ "msg" \in DOMAIN Get(Get(apiFetched).body).detail[1]
  /\ Get(Get(apiFetched).body).detail[1].msg # <<>>

\* C4 as stated: for a 422 response with a non-empty detail list the message of the
\* error equals the first detail entry's message.
C4_MessageIsFirstDetail ==
  (Answered /\ Is422Json /\ HasDetail /\ "msg" \in DOMAIN Get(Get(apiFetched).body).detail[1])
    => /\ Get(apiResult).threw
       /\ Get(apiResult).message = Get(Get(apiFetched).body).detail[1].msg

\* C4, amended: for a 422 response with a JSON object body every operation fails, with
\* the message "Validation Error: " followed by the first detail entry's msg when the
\* detail list is non-empty and that msg is non-empty, and "Validation Error: Invalid
\* input" when the list is empty or absent or the first entry has no or an empty msg.
C4_ValidationMessage ==
  (Answered /\ Is422Json)
    => /\ Get(apiResult).threw
       /\ IsNull(Get(apiResult).value)
       /\ Get(apiResult).message =
            IF HasFirstMsg
            THEN <<"V","a","l","i","d","a","t","i","o","n"," ","E","r","r","o","r",":"," ">>
                   \o Get(Get(apiFetched).body).detail[1].msg
            ELSE <<"V","a","l","i","d","a","t","i","o","n"," ","E","r","r","o","r",":"," ",
                   "I","n","v","a","l","i","d"," ","i","n","p","u","t">>

\* a 422 with two validation issues has been turned into an error
C4_Witness ==
  /\ Answered
  /\ Is422Json
  /\ HasFirstMsg
  /\ Len(Get(Get(apiFetched).body).detail) = 2
  /\ Get(apiResult).threw

\* the status of the response is 2xx and its body is JSON
Is2xxJson ==
  /\ Get(apiFetched).status >= 200
  /\ Get(apiFetched).status <= 299
  /\ ~IsNull(Get(apiFetched).body)

\* the status of the response is neither 2xx nor 422
IsOtherStatus ==
  /\ (Get(apiFetched).status < 200 \/ Get(apiFetched).status > 299)
  /\ Get(apiFetched).status # 422

\* the operation failed with a message that contains the status code, returning nothing
FailsWithStatus ==
  /\ Get(apiResult).threw
  /\ IsNull(Get(apiResult).value)
  /\ Includes(Get(apiResult).message, NumToStr(Get(apiFetched).status))

\* C5 as stated: on a non-2xx, non-422 response each operation fails with a message
\* containing the status code and returns no value; on a 2xx response with a JSON body
\* each operation returns the parsed body and raises no error.
C5_BodyReturned ==
  Answered =>
    /\ IsOtherStatus => FailsWithStatus
    /\ Is2xxJson => /\ ~Get(apiResult).threw
                    /\ Get(apiResult).value = Get(apiFetched).body

\* C5, amended: on a non-2xx, non-422 response each operation fails with a message
\* containing the status code and returns no value; on a 2xx response whose body is
\* a JSON object no error is raised, parseDocument and healthCheck return the parsed
\* body, and getPrompts returns the body's prompts list.
C5_StatusErrors ==
  Answered =>
    /\ IsOtherStatus => FailsWithStatus
    /\ Is2xxJson =>
         /\ ~Get(apiResult).threw
         /\ Get(apiResult).value =
              IF apiOp = "getPrompts" THEN Some(Get(Get(apiFetched).body).prompts)
              ELSE Get(apiFetched).body

\* getPrompts has failed on a 404
C5_Witness ==
  /\ Answered
  /\ apiOp = "getPrompts"
  /\ Get(apiFetched).status = 404
  /\ Get(apiResult).threw

(***************************************************************************)
(* Properties of the DocumentPreview (SpecPreview)                         *)
(***************************************************************************)

\* C7: at most one object URL is unreleased at any time; once the effect of a
\* selection has run, every object URL created for a previously previewed file has
\* been revoked (an unreleased one is of the current file); and none remains after
\* the component is torn down.
C7_NoLeak ==
  /\ Cardinality(objectURLs) <= 1
  /\ (mounted /\ ~effectPending) =>
        \A u \in objectURLs : ~IsNull(fileProp) /\ u.of = Get(fileProp).id
  /\ ~mounted => objectURLs = {}

\* a second PDF is previewed: two object URLs were created, one is unreleased
C7_Witness ==
  /\ mounted
  /\ ~effectPending
  /\ nextURL >= 3
  /\ Cardinality(objectURLs) = 1

\* C13: for any sequence of file selections and any order in which the FileReader
\* reads complete, once the effect of the last selection has run and no read is
\* pending, the preview state of an image file is the data URL of that file, never
\* the data URL of an image selected earlier.
C13_PreviewOfCurrentImage ==
  (mounted /\ ~effectPending /\ readers = {} /\ ~IsNull(fileProp) /\ IsImage(Get(fileProp)))
    => preview = Some([prefix |-> "data:", of |-> Get(fileProp).id])

\* C14: whenever the PDF viewer is rendered with a document URL, that URL is an
\* unrevoked object URL created for the file currently given to the preview.
C14_ViewerURLOfCurrentFile ==
  PdfViewerShown =>
    \E u \in objectURLs : u.url = Get(fileURL) /\ u.of = Get(fileProp).id

(***************************************************************************)
(* Properties of formatMarkdownForDisplay (SpecMarkdown)                   *)
(***************************************************************************)

Strong(x) == <<"<","s","t","r","o","n","g",">">> \o x \o <<"<","/","s","t","r","o","n","g",">">>

RECURSIVE WithBreaks(_)
\* x with every newline written as <br/>
WithBreaks(x) ==
  IF x = <<>> THEN <<>>
  ELSE (IF Head(x) = "\n" THEN <<"<","b","r","/",">">> ELSE <<Head(x)>>) \o WithBreaks(Tail(x))

NoAsterisk(x) == \A k \in 1..Len(x) : x[k] # "*"

\* s has a span **x** at positions i..j+1: ** at i, ** at j, x between them
SpanAt(s, i, j) ==
  /\ i + 2 <= j
  /\ j + 1 <= Len(s)
  /\ s[i] = "*" /\ s[i + 1] = "*"
  /\ s[j] = "*" /\ s[j + 1] = "*"
  /\ NoAsterisk(SubSeq(s, i + 2, j - 1))

SpanText(s, i, j) == SubSeq(s, i + 2, j - 1)

\* C9 as stated: the output has exactly as many <br/> as the input has newlines and
\* no newline; and every span **x** of the input, x without asterisks, appears in the
\* output as <strong>x</strong>.
C9_BreaksAndBold ==
  ~IsNull(mdOutput) =>
    /\ CountOf(Get(mdOutput), <<"<","b","r","/",">">>) = CountOf(mdInput, <<"\n">>)
    /\ CountOf(Get(mdOutput), <<"\n">>) = 0
    /\ \A i \in 1..Len(mdInput) : \A j \in 1..Len(mdInput) :
         SpanAt(mdInput, i, j) => Includes(Get(mdOutput), Strong(SpanText(mdInput, i, j)))

RECURSIVE OnlySpansBefore(_, _, _)
\* s[k..i-1] is text without asterisks and complete spans **y**, y without asterisks
\* and carriage returns
OnlySpansBefore(s, k, i) ==
  IF k >= i THEN k = i
  ELSE IF s[k] # "*" THEN OnlySpansBefore(s, k + 1, i)
  ELSE \E j \in (k + 2)..(i - 2) :
         /\ SpanAt(s, k, j)
         /\ \A m \in (k + 2)..(j - 1) : s[m] # "\r"
         /\ OnlySpansBefore(s, j + 2, i)

\* C9, amended: the output has no newline and exactly as many <br/> as the input has
\* newlines and literal <br/>; and every span **x** of the input, x without asterisks
\* and carriage returns, that is preceded only by text without asterisks and by
\* complete such spans appears in the output as <strong>x'</strong>, x' being x with
\* each newline written as <br/>.
C9_BreaksAndLeadingBold ==
  ~IsNull(mdOutput) =>
    /\ CountOf(Get(mdOutput), <<"<","b","r","/",">">>)
         = CountOf(mdInput, <<"\n">>) + CountOf(mdInput, <<"<","b","r","/",">">>)
    /\ CountOf(Get(mdOutput), <<"\n">>) = 0
    /\ \A i \in 1..Len(mdInput) : \A j \in 1..Len(mdInput) :
         (/\ SpanAt(mdInput, i, j)
          /\ \A m \in (i + 2)..(j - 1) : mdInput[m] # "\r"
          /\ OnlySpansBefore(mdInput, 1, i))
           => Includes(Get(mdOutput), Strong(WithBreaks(SpanText(mdInput, i, j))))

\* an input with a newline and a span has been converted
C9_Witness ==
  /\ ~IsNull(mdOutput)
  /\ mdInput = <<"\n", "*", "*", "a", "*", "*">>
  /\ Get(mdOutput) = <<"<","b","r","/",">","<","s","t","r","o","n","g",">","a",
                       "<","/","s","t","r","o","n","g",">">>

\* line i of s: it starts at i, at the start of the input or after a newline
LineStartsAt(s, i) == i = 1 \/ s[i - 1] = "\n"

\* the text of the line from position i to its end
LineFrom(s, i) ==
  LET ends == {e \in i..Len(s) : s[e] = "\n"}
  IN  IF ends = {} THEN SubSeq(s, i, Len(s))
      ELSE SubSeq(s, i, (CHOOSE e \in ends : \A k \in ends : e <= k) - 1)

\* a heading's text without markup of its own
PlainText(t) == t # <<>> /\ \A k \in 1..Len(t) : t[k] \notin {"*", "\r", "#", "<"}

\* the line at i is hashes, a space and plain text, and the output has it as <name>
HeadingRendered(s, out, i, hashes, name) ==
  (/\ LineStartsAt(s, i)
   /\ StartsWithAt(s, i, hashes \o <<" ">>)
   /\ PlainText(LineFrom(s, i + Len(hashes) + 1)))
    => Includes(out, <<"<">> \o name \o <<">">> \o LineFrom(s, i + Len(hashes) + 1)
                       \o <<"<", "/">> \o name \o <<">">>)

\* C10: every line of the input that begins with "# ", "## " or "### " followed by
\* text T is rendered as <h1>T</h1>, <h2>T</h2> or <h3>T</h3>, whether or not it is
\* the first line.
C10_HeadingOnEveryLine ==
  ~IsNull(mdOutput) =>
    \A i \in 1..Len(mdInput) :
      /\ HeadingRendered(mdInput, Get(mdOutput), i, <<"#">>, <<"h", "1">>)
      /\ HeadingRendered(mdInput, Get(mdOutput), i, <<"#", "#">>, <<"h", "2">>)
      /\ HeadingRendered(mdInput, Get(mdOutput), i, <<"#", "#", "#">>, <<"h", "3">>)

====
